---- MODULE Spec2Model ----
(***************************************************************************)
(* Model of the StoryEngine narrative state machine of the AI storyteller  *)
(* (storyteller/story_engine.py) together with its output parser, its mock *)
(* scene generator and the session handling of app.py main(), and of the   *)
(* narration and illustration engines (storyteller/tts_engine.py,          *)
(* storyteller/image_engine.py) that render_scene calls for a scene.       *)
(*                                                                         *)
(* Python str values are TLA+ strings, handled character by character with *)
(* Len, SubSeq and \o.  The em-dash (U+2014), one character in Python, is  *)
(* written here as the one-character string EmDash, since the module text  *)
(* is ASCII; no other modelled text contains that stand-in character.      *)
(***************************************************************************)
EXTENDS Integers, Sequences, FiniteSets, TLC

VARIABLES
    OpenAI,                  \* the openai library was importable (OpenAI is not None)
    provider,                \* self.provider: "openai" or "mock"
    api_key,                 \* self.api_key ("" when none)
    model,                   \* self.model
    client,                  \* self._client is not None
    config,                  \* self.config (a StoryConfig)
    scene_number,            \* self.state.scene_number
    history,                 \* self.state.history
    last_scene_text,         \* self.state.last_scene_text
    last_scene_image_prompt, \* self.state.last_scene_image_prompt
    choices,                 \* self.state.choices
    finished,                \* self.state.finished
    session,                 \* "engine" in st.session_state (app.py main)
    raised,                  \* the last call ended by raising an exception
    gen_calls,               \* number of _gen_scene calls made so far
    scenes,                  \* the scene texts generated so far, in generation order
    last_op,                 \* the last call: its name, its argument, what held before it
    user_prompt,             \* the user prompt of the last remote generation request
    txt,                     \* the text handed to _parse_model_output
    parsed,                  \* what _parse_model_output made of txt
    pyttsx3,                 \* the pyttsx3 library was importable (pyttsx3 is not None)
    tts,                     \* the TTSEngine: provider, _client and _engine present
    image_engine,            \* the ImageEngine: provider, _client present
    narration,               \* the last narrate call: its argument and outcome
    image                    \* the last generate_image call: its outcome

vars == <<OpenAI, provider, api_key, model, client, config, scene_number, history,
          last_scene_text, last_scene_image_prompt, choices, finished,
          session, raised, gen_calls, scenes, last_op, user_prompt,
          txt, parsed, pyttsx3, tts, image_engine, narration, image>>

engine_vars == <<OpenAI, provider, api_key, model, client, config>>
state_vars == <<scene_number, history, last_scene_text,
                last_scene_image_prompt, choices, finished>>
parse_vars == <<txt, parsed>>
media_vars == <<pyttsx3, tts, image_engine, narration, image>>

(***************************************************************************)
(* Python str operations                                                   *)
(***************************************************************************)
EmDash == "~"
Whitespace == {" ", "\t", "\n", "\r", "\f"}

CharAt(s, i) == SubSeq(s, i, i)

Min(S) == CHOOSE m \in S : \A k \in S : m <= k
Max(S) == CHOOSE m \in S : \A k \in S : m >= k

\* s[a:b] with 0 <= a, 0 <= b (Python slice, 0-based, end exclusive)
Slice(s, a, b) ==
    LET hi == IF b > Len(s) THEN Len(s) ELSE b
    IN  IF a >= hi THEN "" ELSE SubSeq(s, a + 1, hi)

\* s.find(sub): 0-based index of the first occurrence, -1 when absent
Find(s, sub) ==
    LET hits == {i \in 0..(Len(s) - Len(sub)) : SubSeq(s, i + 1, i + Len(sub)) = sub}
    IN  IF hits = {} THEN -1 ELSE Min(hits)

\* sub in s
Contains(s, sub) == Find(s, sub) # -1

\* s.strip()
Strip(s) ==
    LET keep == {i \in 1..Len(s) : CharAt(s, i) \notin Whitespace}
    IN  IF keep = {} THEN "" ELSE SubSeq(s, Min(keep), Max(keep))

UpperLetters == "ABCDEFGHIJKLMNOPQRSTUVWXYZ"
LowerLetters == "abcdefghijklmnopqrstuvwxyz"

LowerChar(c) ==
    LET k == Find(UpperLetters, c)
    IN  IF k = -1 THEN c ELSE CharAt(LowerLetters, k + 1)

\* s.lower()
RECURSIVE Lower(_)
Lower(s) == IF s = "" THEN "" ELSE LowerChar(Head(s)) \o Lower(Tail(s))

\* s.replace(a, b) for a one-character a
RECURSIVE Replace(_, _, _)
Replace(s, a, b) ==
    IF s = "" THEN ""
    ELSE (IF Head(s) = a THEN b ELSE Head(s)) \o Replace(Tail(s), a, b)

\* s.splitlines(): line breaks are \n, \r and \r\n; no trailing empty line
RECURSIVE SplitLines(_)
SplitLines(s) ==
    IF s = "" THEN <<>>
    ELSE LET brk == {i \in 1..Len(s) : CharAt(s, i) \in {"\n", "\r", "\f"}}
         IN  IF brk = {} THEN <<s>>
             ELSE LET i == Min(brk)
                      crlf == /\ CharAt(s, i) = "\r"
                              /\ i < Len(s)
                              /\ CharAt(s, i + 1) = "\n"
                      next == IF crlf THEN i + 2 ELSE i + 1
                  IN  <<SubSeq(s, 1, i - 1)>> \o SplitLines(SubSeq(s, next, Len(s)))

\* sep.join(parts)
RECURSIVE Join(_, _)
Join(sep, parts) ==
    IF parts = <<>> THEN ""
    ELSE IF Len(parts) = 1 THEN parts[1]
    ELSE parts[1] \o sep \o Join(sep, Tail(parts))

\* s.split(sep, 1): one or two parts
Split1(s, sep) ==
    LET k == Find(s, sep)
    IN  IF k = -1 THEN <<s>>
        ELSE <<Slice(s, 0, k), Slice(s, k + Len(sep), Len(s))>>

(***************************************************************************)
(* Output parser: StoryEngine._parse_model_output                          *)
(***************************************************************************)
OpenTag(tag) == "<" \o tag \o ">"
CloseTag(tag) == "</" \o tag \o ">"

\* extract with the slice starting one character early (the ">" is kept)
extract_off_by_one(t, tag) ==
    LET start == Find(t, OpenTag(tag))
        end == Find(t, CloseTag(tag))
    IN  IF start = -1 \/ end = -1 THEN ""
        ELSE Strip(Slice(t, start + Len(tag) + 1, end))

\* the nested extract(tag) of _parse_model_output
extract(t, tag) ==
    LET start == Find(t, OpenTag(tag))
        end == Find(t, CloseTag(tag))
    IN  IF start = -1 \/ end = -1 THEN ""
        ELSE Strip(Slice(t, start + Len(tag) + 2, end))

DefaultImagePrompt(cfg) ==
    "Illustration of " \o cfg.main_character \o " in " \o cfg.setting \o "."

DefaultChoices ==
    << [label |-> "Go left", summary |-> "left_path"],
       [label |-> "Go right", summary |-> "right_path"] >>

\* One line of the choices block (already stripped, non-empty): the choices
\* it contributes, or the ValueError of unpacking a one-element split.
ParseChoiceLine(line) ==
    IF Contains(line, ") ") /\ Contains(line, EmDash)
    THEN LET after_num == Split1(line, ") ")[2]
             parts == Split1(after_num, EmDash)
         IN  IF Len(parts) < 2
             THEN [raised |-> TRUE, choices |-> <<>>]
             ELSE [raised |-> FALSE,
                   choices |-> << [label |-> Strip(parts[1]),
                                   summary |-> Strip(parts[2])] >>]
    ELSE [raised |-> FALSE, choices |-> <<>>]

\* the for loop over choices_block.splitlines()
RECURSIVE ParseChoiceLines(_)
ParseChoiceLines(lines) ==
    IF lines = <<>> THEN [raised |-> FALSE, choices |-> <<>>]
    ELSE LET line == Strip(Head(lines))
             one == IF line = "" THEN [raised |-> FALSE, choices |-> <<>>]
                    ELSE ParseChoiceLine(line)
             rest == ParseChoiceLines(Tail(lines))
         IN  IF one.raised THEN one
             ELSE [raised |-> rest.raised, choices |-> one.choices \o rest.choices]

Raised == [raised |-> TRUE, text |-> "", image_prompt |-> "",
           choices |-> <<>>, finished |-> FALSE]

\* the fallback without the strip()
SceneTextOrRaw(e_scene, t) == IF e_scene # "" THEN e_scene ELSE t

\* extract("SCENE") or txt.strip()
SceneTextOr(e_scene, t) == IF e_scene # "" THEN e_scene ELSE Strip(t)

\* if not choices and not finished
NeedsDefaultChoices(chs, fin) == chs = <<>> /\ ~fin

_parse_model_output(t, cfg) ==
    LET e_scene == extract(t, "SCENE")
        scene_text == SceneTextOr(e_scene, t)
        e_img == extract(t, "IMAGE_PROMPT")
        image_prompt == IF e_img # "" THEN e_img ELSE DefaultImagePrompt(cfg)
        choices_block == extract(t, "CHOICES")
        finished_raw == Lower(extract(t, "FINISHED"))
        fin == Contains(finished_raw, "true")
        got == IF choices_block # "" THEN ParseChoiceLines(SplitLines(choices_block))
               ELSE [raised |-> FALSE, choices |-> <<>>]
        chs == IF NeedsDefaultChoices(got.choices, fin) THEN DefaultChoices
               ELSE got.choices
    IN  IF got.raised THEN Raised
        ELSE [raised |-> FALSE, text |-> scene_text, image_prompt |-> image_prompt,
              choices |-> chs, finished |-> fin]

(***************************************************************************)
(* Story configurations and engine constructions                           *)
(***************************************************************************)
\* StoryConfig values; theme "" stands for None (both are falsy where read)
ConfigAsha == [genre |-> "Fantasy", target_age |-> "Kids (6-9)", tone |-> "Whimsical",
               reading_level |-> 3, main_character |-> "Asha",
               setting |-> "a seaside town in monsoon",
               theme |-> "Friendship and courage"]
ConfigBo == [genre |-> "Sci-Fi", target_age |-> "Adults", tone |-> "Dark",
             reading_level |-> 5, main_character |-> "Bo",
             setting |-> "Mars", theme |-> ""]
Configs == {ConfigAsha, ConfigBo}

\* Arguments of StoryEngine(provider, openai_api_key, openai_model, config)
EngineArgs ==
    { [provider |-> "mock", api_key |-> "", model |-> "gpt-4o-mini", config |-> ConfigAsha],
      [provider |-> "openai", api_key |-> "sk-1", model |-> "gpt-4o-mini", config |-> ConfigAsha],
      [provider |-> "openai", api_key |-> "", model |-> "gpt-4o", config |-> ConfigBo],
      [provider |-> "mock", api_key |-> "sk-1", model |-> "", config |-> ConfigBo] }

\* self._client after __init__: a client exists iff provider is "openai",
\* the key is non-empty and the openai library was importable
NewClient(args, lib) == args.provider = "openai" /\ args.api_key # "" /\ lib

\* a or b on str values
StrOr(a, b) == IF a # "" THEN a ELSE b

(***************************************************************************)
(* Mock generator: StoryEngine._mock_scene                                 *)
(***************************************************************************)
MockEndScene == 5

\* the ending test one scene early
finish_now_early(sn) == sn >= MockEndScene - 1

\* finish_now = self.state.scene_number >= 5
finish_now(sn) == sn >= MockEndScene

\* the opening choices with the first two exchanged
OpeningChoicesReordered ==
    << [label |-> "Sneak out into the rain", summary |-> "venture_out"],
       [label |-> "Study the map closely", summary |-> "inspect_map"],
       [label |-> "Ask a friend for help", summary |-> "seek_friend"] >>

OpeningChoices ==
    << [label |-> "Study the map closely", summary |-> "inspect_map"],
       [label |-> "Sneak out into the rain", summary |-> "venture_out"],
       [label |-> "Ask a friend for help", summary |-> "seek_friend"] >>

ContinuationChoices ==
    << [label |-> "Follow the pulsing glow", summary |-> "follow_glow"],
       [label |-> "Enter the creaking door", summary |-> "enter_door"] >>

MockOpeningText(cfg) ==
    cfg.main_character \o " lived in " \o cfg.setting \o ", dreaming of "
    \o Lower(cfg.genre) \o " adventures. "
    \o "One stormy evening, a " \o Lower(cfg.tone)
    \o " whisper slipped through the window, carrying a map inked with moonlight. "
    \o "Following the map would mean trading comfort for mystery" \o EmDash
    \o "and perhaps discovering a truth about " \o StrOr(cfg.theme, "destiny") \o "."
    \o "\n\nWhat will " \o cfg.main_character \o " do next?"

MockContinuationText(cfg, choice_summary) ==
    "Choosing to " \o Replace(choice_summary, "_", " ") \o ", "
    \o cfg.main_character
    \o " stepped forward. The night smelled of salt and possibility. "
    \o "A stray cat traced circles around their ankles as lanterns flickered awake across the harbor. "
    \o "Somewhere, a door creaked" \o EmDash
    \o "the map responded with a pulse of cool light."

MockClosing ==
    "\n\nAt last, the journey's first chapter closed" \o EmDash \o "with courage awakened."

\* sn is self.state.scene_number at the time of the call
_mock_scene(cfg, sn, opening, choice_summary) ==
    IF opening
    THEN [raised |-> FALSE,
          text |-> MockOpeningText(cfg),
          image_prompt |-> cfg.main_character \o " holding a glowing map in "
                           \o cfg.setting \o ", stylized, cinematic lighting",
          choices |-> OpeningChoices,
          finished |-> FALSE]
    ELSE LET text == MockContinuationText(cfg, choice_summary)
             img == cfg.main_character
                    \o " in the rain near the harbor; lanterns and reflections; moody; "
                    \o choice_summary
         IN  IF finish_now(sn)
             THEN [raised |-> FALSE, text |-> text \o MockClosing, image_prompt |-> img,
                   choices |-> <<>>, finished |-> TRUE]
             ELSE [raised |-> FALSE, text |-> text, image_prompt |-> img,
                   choices |-> ContinuationChoices, finished |-> FALSE]

(***************************************************************************)
(* Scene generation: StoryEngine._gen_scene                                *)
(***************************************************************************)
\* the branch taken at the head of _gen_scene
UsesMock(prov, cl) == prov = "mock" \/ ~cl

\* Texts the remote model returns in the engine runs (resp...message.content)
BlobOpen ==
    "<SCENE>\nA.\n</SCENE>\n<IMAGE_PROMPT>i</IMAGE_PROMPT>\n<CHOICES>\n1) Go " \o EmDash
    \o " go\n2) Stay " \o EmDash \o " stay\n</CHOICES>\n<FINISHED>false</FINISHED>"
BlobEndWithChoices ==
    "<SCENE>B.</SCENE><CHOICES>1) On " \o EmDash \o " on</CHOICES><FINISHED>true</FINISHED>"
BlobEnd == "<SCENE>End.</SCENE><FINISHED>True</FINISHED>"
BlobEmpty == ""
BlobBadLine == "<CHOICES>x " \o EmDash \o " 1) y</CHOICES>"

RemoteBlobs == {BlobOpen, BlobEndWithChoices, BlobEnd, BlobEmpty, BlobBadLine}

\* What chat.completions.create does: returns a text, or raises
RemoteReplies ==
    {[ok |-> TRUE, content |-> b] : b \in RemoteBlobs} \cup {[ok |-> FALSE, content |-> ""]}

RecentScenes == 3

\* h[-n:] on a Python list
LastN(h, n) == SubSeq(h, Max({1, Len(h) - n + 1}), Len(h))

\* self.state.history[-3:]
RecentHistory(h) == LastN(h, RecentScenes)

\* _user_prompt(opening, choice_summary), h being self.state.history
_user_prompt(h, opening, choice_summary) ==
    LET recent == Join("\n", RecentHistory(h))
        prefix == IF opening THEN "Opening scene."
                  ELSE "Continue based on choice: " \o choice_summary \o "."
    IN  prefix \o "\n\nRecent scenes:\n" \o recent \o "\n"

\* what came back from the provider in _gen_scene: the mock's scene, a text
\* of the remote model, or the remote call's exception
ReplyKind(reply) ==
    IF UsesMock(provider, client) THEN "mock"
    ELSE IF reply.ok THEN "text" ELSE "error"

\* the user prompt after _gen_scene: built only on the remote branch
PromptAfter(opening, choice_summary) ==
    IF UsesMock(provider, client) THEN user_prompt
    ELSE _user_prompt(history, opening, choice_summary)

_gen_scene(sn, opening, choice_summary, reply) ==
    IF UsesMock(provider, client)
    THEN _mock_scene(config, sn, opening, choice_summary)
    ELSE IF ~reply.ok THEN Raised
    ELSE _parse_model_output(reply.content, config)

(***************************************************************************)
(* StoryEngine operations                                                  *)
(***************************************************************************)
MaxGen == 2
MaxIndex == 3

Indices == -1..MaxIndex

\* the guard without its lower bound
ValidIndexNoLower(i, chs) == i < Len(chs)

\* the guard of advance: 0 <= choice_index < len(self.state.choices)
ValidIndex(i, chs) == 0 <= i /\ i < Len(chs)

\* chs[i] on a Python list: a negative index counts from the end, and an
\* index outside -len..len-1 raises IndexError
InRange(chs, i) == -Len(chs) <= i /\ i < Len(chs)
ChoiceAt(chs, i) == IF i >= 0 THEN chs[i + 1] ELSE chs[Len(chs) + i + 1]

\* history after _update_state_from_scene: the superseded text is appended
\* when it is non-empty
NextHistory(h, last) == IF last # "" THEN Append(h, last) ELSE h

\* the counter incremented also by a finished scene
NextSceneNumberAlways(sn, fin) == sn + 1

\* scene_number after _update_state_from_scene, from its value sn before
NextSceneNumber(sn, fin) == IF ~fin THEN sn + 1 ELSE sn

\* _update_state_from_scene(scene), entered with scene_number = sn
_update_state_from_scene(scene, sn) ==
    /\ history' = NextHistory(history, last_scene_text)
    /\ last_scene_text' = scene.text
    /\ last_scene_image_prompt' = scene.image_prompt
    /\ choices' = scene.choices
    /\ finished' = scene.finished
    /\ scene_number' = NextSceneNumber(sn, scene.finished)

\* "\n\n".join(self.state.history + [self.state.last_scene_text])
full_transcript == Join("\n\n", Append(history, last_scene_text))

is_finished == finished

\* what is recorded of a call: its name, whether its index argument was
\* within 0..len(choices)-1 (and then the index), whether it reached
\* _gen_scene and what the provider replied, the scene counter and
\* finished flag it found, and, for merge_from(other), whether other itself
\* would generate with the mock
Op(name, i, called, reply) ==
    [name |-> name, index_ok |-> (0 <= i /\ i < Len(choices)),
     index |-> IF 0 <= i /\ i < Len(choices) THEN i ELSE -1,
     called |-> called, reply |-> reply,
     pre_scene_number |-> scene_number, pre_finished |-> finished,
     other_mock |-> FALSE]

NoOp == [name |-> "init", index_ok |-> FALSE, index |-> -1, called |-> FALSE,
         reply |-> "none", pre_scene_number |-> 0, pre_finished |-> FALSE,
         other_mock |-> FALSE]

\* StoryEngine.__init__ with a fresh StoryState
Construct(args, lib) ==
    /\ OpenAI = lib
    /\ provider = args.provider
    /\ api_key = args.api_key
    /\ model = args.model
    /\ config = args.config
    /\ client = NewClient(args, lib)
    /\ scene_number = 0
    /\ history = <<>>
    /\ last_scene_text = ""
    /\ last_scene_image_prompt = ""
    /\ choices = <<>>
    /\ finished = FALSE

\* start_story; once == TRUE is app.py main(), which starts the story only
\* when the session holds no engine yet
start_story(lim, once) ==
    /\ gen_calls < lim
    /\ once => ~session
    /\ \E reply \in RemoteReplies :
         /\ LET scene == _gen_scene(1, TRUE, "", reply)
            IN  IF scene.raised
                THEN /\ scene_number' = 1
                     /\ raised' = TRUE
                     /\ UNCHANGED <<history, last_scene_text, last_scene_image_prompt,
                                    choices, finished, scenes>>
                ELSE /\ _update_state_from_scene(scene, 1)
                     /\ raised' = FALSE
                     /\ scenes' = Append(scenes, scene.text)
         /\ last_op' = Op("start_story", -1, TRUE, ReplyKind(reply))
    /\ user_prompt' = PromptAfter(TRUE, "")
    /\ session' = TRUE
    /\ gen_calls' = gen_calls + 1
    /\ UNCHANGED <<OpenAI, engine_vars, parse_vars, media_vars>>

\* advance(choice_index) with an index that passes the guard
advance_valid(lim) ==
    /\ gen_calls < lim
    /\ \E i \in Indices, reply \in RemoteReplies :
         /\ ValidIndex(i, choices)
         /\ IF ~InRange(choices, i)
            THEN /\ raised' = TRUE
                 /\ last_op' = Op("advance", i, FALSE, "none")
                 /\ UNCHANGED <<state_vars, scenes, gen_calls, user_prompt>>
            ELSE LET chosen == ChoiceAt(choices, i)
                     scene == _gen_scene(scene_number, FALSE, chosen.summary, reply)
                 IN  /\ IF scene.raised
                        THEN raised' = TRUE /\ UNCHANGED <<state_vars, scenes>>
                        ELSE /\ raised' = FALSE
                             /\ _update_state_from_scene(scene, scene_number)
                             /\ scenes' = Append(scenes, scene.text)
                     /\ last_op' = Op("advance", i, TRUE, ReplyKind(reply))
                     /\ user_prompt' = PromptAfter(FALSE, chosen.summary)
                     /\ gen_calls' = gen_calls + 1
    /\ UNCHANGED <<OpenAI, engine_vars, session, parse_vars, media_vars>>

\* advance(choice_index) with an index that fails the guard
advance_ignored ==
    /\ \E i \in Indices :
         /\ ~ValidIndex(i, choices)
         /\ last_op' = Op("advance", i, FALSE, "none")
    /\ raised' = FALSE
    /\ UNCHANGED <<OpenAI, engine_vars, state_vars, session, gen_calls, scenes,
                   user_prompt, parse_vars, media_vars>>

advance(lim) == advance_valid(lim) \/ advance_ignored

\* merge_from(other), other being a StoryEngine just constructed from args
merge_from(argset, once) ==
    /\ once => session
    /\ \E a \in argset :
         /\ provider' = StrOr(a.provider, provider)
         /\ api_key' = StrOr(a.api_key, api_key)
         /\ model' = StrOr(a.model, model)
         /\ client' = IF NewClient(a, OpenAI) THEN TRUE ELSE client
         /\ config' = a.config
         /\ last_op' = [Op("merge_from", -1, FALSE, "none") EXCEPT
                           !.other_mock = UsesMock(a.provider, NewClient(a, OpenAI))]
    /\ raised' = FALSE
    /\ UNCHANGED <<OpenAI, state_vars, session, gen_calls, scenes, user_prompt,
                   parse_vars, media_vars>>

(***************************************************************************)
(* TTSEngine and ImageEngine                                               *)
(***************************************************************************)
TTSProviders == {"local", "openai", "mock"}
ImageProviders == {"openai", "mock"}

\* TTSEngine.__init__(provider, openai_api_key): a remote client for
\* "openai" with a key and the library, else a local engine for "local"
\* with pyttsx3
TTSEngine(prov, key, openai_lib, pyttsx3_lib) ==
    LET remote == prov = "openai" /\ key # "" /\ openai_lib
    IN  [provider |-> prov,
         client |-> remote,
         engine |-> (~remote /\ prov = "local" /\ pyttsx3_lib)]

\* ImageEngine.__init__(provider, openai_api_key, openai_image_model)
ImageEngine(prov, key, openai_lib) ==
    [provider |-> prov, client |-> (prov = "openai" /\ key # "" /\ openai_lib)]

Digits == <<"0", "1", "2", "3", "4", "5", "6", "7", "8", "9">>

\* str(n) for n >= 0
RECURSIVE ToStr(_)
ToStr(n) == IF n < 10 THEN Digits[n + 1] ELSE ToStr(n \div 10) \o Digits[(n % 10) + 1]

\* f"{scene_no:02d}" for scene_no >= 0
Format02d(n) == IF n < 10 THEN "0" \o ToStr(n) ELSE ToStr(n)

\* os.path.join(out_dir, name) for a relative name
PathJoin(dir, name) ==
    IF dir = "" THEN name
    ELSE IF CharAt(dir, Len(dir) - 1) = "/" THEN dir \o name
    ELSE dir \o "/" \o name

\* the export folder of app.py's sidebar (its default), and one ending in "/"
OutDirs == {"exports", "out/"}

MaxSceneNo == 10
SceneNos == 1..MaxSceneNo

\* what can go wrong during a narrate call: the remote speech call raises,
\* the local engine raises, writing the file raises
NarrateEnvs ==
    [speech_fails : BOOLEAN, engine_fails : BOOLEAN, write_fails : BOOLEAN]

NotNarrated ==
    [called |-> FALSE, raised |-> FALSE, path |-> "None", wrote |-> FALSE,
     silent |-> FALSE, failed |-> {}]

\* the outcome of a narrate call: raised, or the returned path ("None" for
\* None), whether a file was written, whether it is the silent placeholder,
\* and the failures met on the way
Narrated(raised_, path, wrote, silent, failed) ==
    [called |-> TRUE, raised |-> raised_, path |-> path, wrote |-> wrote,
     silent |-> silent, failed |-> failed]

\* TTSEngine.narrate(text, scene_no, out_dir) on engine t; the text does not
\* influence the outcome
narrate(t, scene_no, out_dir, env) ==
    LET file(suffix) == PathJoin(out_dir, "scene_" \o Format02d(scene_no) \o suffix)
    IN  IF t.provider = "mock"
        THEN IF env.write_fails
             THEN Narrated(TRUE, "None", FALSE, FALSE, {"write"})
             ELSE Narrated(FALSE, file("_mock.wav"), TRUE, TRUE, {})
        ELSE IF t.provider = "local" /\ t.engine
        THEN IF ~env.engine_fails
             THEN Narrated(FALSE, file(".wav"), TRUE, FALSE, {})
             ELSE IF env.write_fails
             THEN Narrated(TRUE, "None", FALSE, FALSE, {"engine", "write"})
             ELSE Narrated(FALSE, file(".wav"), TRUE, TRUE, {"engine"})
        ELSE IF t.provider = "openai" /\ t.client
        THEN IF env.speech_fails
             THEN Narrated(TRUE, "None", FALSE, FALSE, {"speech"})
             ELSE IF env.write_fails
             THEN Narrated(TRUE, "None", FALSE, FALSE, {"write"})
             ELSE Narrated(FALSE, file(".mp3"), TRUE, FALSE, {})
        ELSE Narrated(FALSE, "None", FALSE, FALSE, {})

NoImage == [called |-> FALSE, raised |-> FALSE, kind |-> "None"]

\* ImageEngine.generate_image(prompt, seed) on engine e: the placeholder
\* without a remote client, else the remote image, or the remote call's
\* exception
generate_image(e, images_fails) ==
    IF e.provider = "mock" \/ ~e.client
    THEN [called |-> TRUE, raised |-> FALSE, kind |-> "placeholder"]
    ELSE IF images_fails
    THEN [called |-> TRUE, raised |-> TRUE, kind |-> "None"]
    ELSE [called |-> TRUE, raised |-> FALSE, kind |-> "remote"]

\* narration and illustration switched off (use_tts, use_images false in
\* app.py): the engines are never called
NoMedia ==
    /\ pyttsx3 = FALSE
    /\ tts = TTSEngine("mock", "", FALSE, FALSE)
    /\ image_engine = ImageEngine("mock", "", FALSE)
    /\ narration = NotNarrated
    /\ image = NoImage

(***************************************************************************)
(* Spec: any sequence of start_story, advance and merge_from calls on an   *)
(* engine constructed from any of EngineArgs                               *)
(***************************************************************************)
NotParsed == [done |-> FALSE]

Init ==
    /\ \E a \in EngineArgs, lib \in BOOLEAN : Construct(a, lib)
    /\ session = FALSE
    /\ raised = FALSE
    /\ gen_calls = 0
    /\ scenes = <<>>
    /\ last_op = NoOp
    /\ user_prompt = ""
    /\ txt = ""
    /\ parsed = NotParsed
    /\ NoMedia

StartStory == start_story(MaxGen, FALSE)
AdvanceValid == advance_valid(MaxGen)
AdvanceIgnored == advance_ignored
MergeFrom == merge_from(EngineArgs, FALSE)

Next == StartStory \/ AdvanceValid \/ AdvanceIgnored \/ MergeFrom

Spec == Init /\ [][Next]_vars

(***************************************************************************)
(* SpecApp: the engine as a session of app.py main() drives it: the first  *)
(* render stores the engine and starts the story, every later render       *)
(* merges a freshly constructed engine into it                             *)
(***************************************************************************)
MaxGenApp == 3

StartStoryApp == start_story(MaxGenApp, TRUE)
AdvanceValidApp == advance_valid(MaxGenApp)
MergeFromApp == merge_from(EngineArgs, TRUE)

NextApp == StartStoryApp \/ AdvanceValidApp \/ AdvanceIgnored \/ MergeFromApp

SpecApp == Init /\ [][NextApp]_vars

(***************************************************************************)
(* SpecMock: a session of app.py main() in which every engine generates    *)
(* with the mock (provider "mock", or no client): the story is started     *)
(* once, each later render merges a freshly constructed engine             *)
(***************************************************************************)
MaxGenMock == 5

\* the constructions whose engine has no remote client
MockArgs(lib) == {a \in EngineArgs : ~NewClient(a, lib)}

InitMock ==
    /\ \E lib \in BOOLEAN : \E a \in MockArgs(lib) : Construct(a, lib)
    /\ session = FALSE
    /\ raised = FALSE
    /\ gen_calls = 0
    /\ scenes = <<>>
    /\ last_op = NoOp
    /\ user_prompt = ""
    /\ txt = ""
    /\ parsed = NotParsed
    /\ NoMedia

StartStoryMock == start_story(MaxGenMock, TRUE)
AdvanceValidMock == advance_valid(MaxGenMock)
MergeFromMock == merge_from(MockArgs(OpenAI), TRUE)

NextMock == StartStoryMock \/ AdvanceValidMock \/ AdvanceIgnored \/ MergeFromMock

\* the reader keeps choosing: a valid advance that stays possible is taken
SpecMock == InitMock /\ [][NextMock]_vars /\ WF_vars(AdvanceValidMock)

(***************************************************************************)
(* SpecRemote: the calls of StoryEngine in any order on an engine with a   *)
(* remote client, merged only with engines that have one too (a key is     *)
(* entered, mock mode is off): every scene is requested from the remote    *)
(* model                                                                   *)
(***************************************************************************)
MaxGenRemote == 5

\* the constructions whose engine has a remote client
RemoteArgs == {a \in EngineArgs : NewClient(a, TRUE)}

InitRemote ==
    /\ \E a \in RemoteArgs : Construct(a, TRUE)
    /\ session = FALSE
    /\ raised = FALSE
    /\ gen_calls = 0
    /\ scenes = <<>>
    /\ last_op = NoOp
    /\ user_prompt = ""
    /\ txt = ""
    /\ parsed = NotParsed
    /\ NoMedia

StartStoryRemote == start_story(MaxGenRemote, FALSE)
AdvanceValidRemote == advance_valid(MaxGenRemote)
MergeFromRemote == merge_from(RemoteArgs, FALSE)

NextRemote == StartStoryRemote \/ AdvanceValidRemote \/ MergeFromRemote

SpecRemote == InitRemote /\ [][NextRemote]_vars

(***************************************************************************)
(* SpecParse: _parse_model_output applied to one text                      *)
(***************************************************************************)
Tags == {"SCENE", "IMAGE_PROMPT", "CHOICES", "FINISHED"}

\* the output format of _system_prompt, with two choice lines
ContractBlob(scene, img, l1, s1, l2, s2, fin) ==
    "<SCENE>\n" \o scene \o "\n</SCENE>\n"
    \o "<IMAGE_PROMPT>" \o img \o "</IMAGE_PROMPT>\n"
    \o "<CHOICES>\n1) " \o l1 \o " " \o EmDash \o " " \o s1
    \o "\n2) " \o l2 \o " " \o EmDash \o " " \o s2 \o "\n</CHOICES>\n"
    \o "<FINISHED>" \o fin \o "</FINISHED>"

SceneTexts == {"A storm broke.", "  Rain fell.\nThen sun. ", "", " \n"}
ImagePrompts == {"a glowing map", " harbor at dusk ", ""}
Labels1 == {"Go left", "Run (fast) now", "Half" \o EmDash \o "way"}
Summaries1 == {"go_left"}
Labels2 == {"Stay home"}
Summaries2 == {"stay_home", "wait  here "}
FinishedTexts == {"true", "false", "True", "FALSE"}

ContractBlobs ==
    {ContractBlob(sc, im, l1, s1, l2, s2, fin) :
        sc \in SceneTexts, im \in ImagePrompts, l1 \in Labels1, s1 \in Summaries1,
        l2 \in Labels2, s2 \in Summaries2, fin \in FinishedTexts}

\* texts without any delimiter tag
TagFreeBlobs ==
    {"", "  ", "Once upon a time.", "\n The end. true \n",
     "1) Go " \o EmDash \o " go", "<SCENE the cave", "SCENE> x </ SCENE>",
     "<scene>lower</scene>"}

\* lines of a choices block
LineGood == "1) Go " \o EmDash \o " go"
LineNoDash == "2) Stay"
LineNoMarker == "3 Run " \o EmDash \o " run"
LineDashFirst == "x " \o EmDash \o " 4) y"
LineDashBoth == "a " \o EmDash \o " 5) b " \o EmDash \o " c"
LineNoNumber == "x) Hop " \o EmDash \o " hop"
LineBlank == "  "
ChoiceLines == {LineGood, LineNoDash, LineNoMarker, LineDashFirst, LineDashBoth,
                LineNoNumber, LineBlank}

MaxLines == 2

RECURSIVE LineSeqs(_)
LineSeqs(n) ==
    IF n = 0 THEN {<<>>}
    ELSE LineSeqs(n - 1) \cup
         {Append(ls, l) : ls \in {q \in LineSeqs(n - 1) : Len(q) = n - 1}, l \in ChoiceLines}

ChoicesBlob(lines) ==
    "<SCENE>S.</SCENE>\n<CHOICES>\n" \o Join("\n", lines) \o "\n</CHOICES>"

ChoicesBlobs == {ChoicesBlob(ls) : ls \in LineSeqs(MaxLines)}

\* texts with a tag missing, misplaced or unusual
OddBlobs ==
    {"<SCENE>only open", "</SCENE>x<SCENE>", "<FINISHED>not true</FINISHED>",
     "<FINISHED>yes</FINISHED>tail", "<IMAGE_PROMPT> </IMAGE_PROMPT>rest",
     "<CHOICES>\r\n1) Go " \o EmDash \o " go\r2) Up " \o EmDash \o " up</CHOICES>"}

ParseBlobs == ContractBlobs \cup TagFreeBlobs \cup ChoicesBlobs \cup OddBlobs

InitParse ==
    /\ \E a \in EngineArgs : Construct(a, TRUE)
    /\ session = FALSE
    /\ raised = FALSE
    /\ gen_calls = 0
    /\ scenes = <<>>
    /\ last_op = NoOp
    /\ user_prompt = ""
    /\ txt \in ParseBlobs
    /\ parsed = NotParsed
    /\ NoMedia

\* text, image_prompt, choices, finished = self._parse_model_output(content)
ParseOutput ==
    /\ ~parsed.done
    /\ LET r == _parse_model_output(txt, config)
       IN  parsed' = [done |-> TRUE, raised |-> r.raised, text |-> r.text,
                      image_prompt |-> r.image_prompt, choices |-> r.choices,
                      finished |-> r.finished]
    /\ UNCHANGED <<OpenAI, engine_vars, state_vars, session, raised, gen_calls,
                   scenes, last_op, user_prompt, txt, media_vars>>

NextParse == ParseOutput

SpecParse == InitParse /\ [][NextParse]_vars

(***************************************************************************)
(* SpecMedia: the narration and illustration calls of render_scene on       *)
(* engines constructed with any provider, with or without a key, with the  *)
(* libraries importable or not                                             *)
(***************************************************************************)
InitMedia ==
    /\ \E a \in EngineArgs, lib \in BOOLEAN, plib \in BOOLEAN,
          tp \in TTSProviders, ip \in ImageProviders :
            /\ Construct(a, lib)
            /\ pyttsx3 = plib
            /\ tts = TTSEngine(tp, a.api_key, lib, plib)
            /\ image_engine = ImageEngine(ip, a.api_key, lib)
    /\ narration = NotNarrated
    /\ image = NoImage
    /\ session = FALSE
    /\ raised = FALSE
    /\ gen_calls = 0
    /\ scenes = <<>>
    /\ last_op = NoOp
    /\ user_prompt = ""
    /\ txt = ""
    /\ parsed = NotParsed

\* audio_path = tts_engine.narrate(text, scene_no=..., out_dir=...)
Narrate ==
    /\ \E n \in SceneNos, d \in OutDirs, env \in NarrateEnvs :
         narration' = narrate(tts, n, d, env)
    /\ UNCHANGED <<OpenAI, engine_vars, state_vars, session, raised, gen_calls,
                   scenes, last_op, user_prompt, parse_vars, pyttsx3, tts,
                   image_engine, image>>

\* img = image_engine.generate_image(prompt, seed=...)
GenerateImage ==
    /\ \E images_fails \in BOOLEAN :
         image' = generate_image(image_engine, images_fails)
    /\ UNCHANGED <<OpenAI, engine_vars, state_vars, session, raised, gen_calls,
                   scenes, last_op, user_prompt, parse_vars, pyttsx3, tts,
                   image_engine, narration>>

NextMedia == Narrate \/ GenerateImage

SpecMedia == InitMedia /\ [][NextMedia]_vars

(***************************************************************************)
(* Properties of the engine                                                *)
(***************************************************************************)

\* C1: advance on a state whose finished flag is set leaves every field of
\* StoryState unchanged, whatever the index.
C1_AdvanceOnFinishedIsNoOp ==
    [][(finished /\ last_op'.name = "advance") => UNCHANGED state_vars]_vars

\* C2: in every reachable state, finished implies that choices is empty.
C2_FinishedHasNoChoices == finished => choices = <<>>

\* C3: with the mock generator a started story eventually finishes, and the
\* step that sets finished ends with scene_number = 5.
C3_MockEndsAtSceneFive ==
    /\ [](session => <>finished)
    /\ [][(~finished /\ finished') => scene_number' = MockEndScene]_vars

C3_Witness ==
    /\ session /\ finished /\ scene_number = MockEndScene
    /\ last_op.name = "advance" /\ last_op.called /\ ~last_op.pre_finished

\* C4: scene_number is the 1-based number of the displayed scene: 1 right
\* after start_story on a fresh engine whose opening scene is not finished,
\* 2 after the first successful advance to a scene that is not finished.
C4_SceneNumberIsOneBased ==
    /\ (/\ last_op.name = "start_story" /\ last_op.pre_scene_number = 0
        /\ ~raised /\ ~finished) => scene_number = 1
    /\ (/\ last_op.name = "advance" /\ last_op.called
        /\ ~raised /\ ~finished /\ Len(scenes) = 2) => scene_number = 2

\* C5: over any sequence of start_story, advance and merge_from calls
\* scene_number never decreases; an advance that produces a scene that is
\* not finished adds exactly 1; an advance that produces a finished scene
\* or does nothing leaves it unchanged.
C5_SceneNumberNeverDecreases ==
    [][ /\ scene_number' >= scene_number
        /\ (/\ last_op'.name = "advance" /\ last_op'.called
            /\ ~raised' /\ ~finished') => scene_number' = scene_number + 1
        /\ (/\ last_op'.name = "advance"
            /\ (~last_op'.called \/ finished')) => scene_number' = scene_number
      ]_vars

\* C6: once scenes have been generated, full_transcript is the join, with a
\* blank line between them, of all the scene texts generated so far, in
\* generation order: history holds all of them but the displayed one.
C6_TranscriptJoinsAllScenes ==
    scenes # <<>> =>
        /\ full_transcript = Join("\n\n", scenes)
        /\ Len(history) + 1 = Len(scenes)

\* C7: advance with an index below 0 or at least len(choices) raises
\* nothing, does not reach the scene provider and leaves StoryState unchanged.
C7_InvalidIndexIsNoOp ==
    [][(last_op'.name = "advance" /\ ~last_op'.index_ok) =>
          /\ UNCHANGED state_vars
          /\ ~raised'
          /\ ~last_op'.called
          /\ gen_calls' = gen_calls]_vars

C7_Witness ==
    /\ last_op.name = "advance" /\ ~last_op.index_ok
    /\ session /\ choices # <<>> /\ ~finished

(***************************************************************************)
(* Properties of the parser                                                *)
(***************************************************************************)
GoodChoice == [label |-> "Go", summary |-> "go"]

\* the choices the lines of a block stand for: one per line of the form
\* <number>) <label> - <summary>, none for any other line
RECURSIVE LineChoices(_)
LineChoices(lines) ==
    IF lines = <<>> THEN <<>>
    ELSE (IF Head(lines) = LineGood THEN <<GoodChoice>> ELSE <<>>)
         \o LineChoices(Tail(lines))

\* the kinds of line the claim names: well-formed, lacking the em-dash,
\* lacking the ") " marker, with the em-dash only before the marker, blank
NamedLines == {LineGood, LineNoDash, LineNoMarker, LineDashFirst, LineBlank}

\* C8: parsing never raises, and in a choices block every line that is not
\* of the form <number>) <label> - <summary> is skipped while every line of
\* that form yields one choice (the two defaults when none is left).
C8_ParsingNeverRaises ==
    parsed.done =>
        /\ ~parsed.raised
        /\ \A ls \in {q \in LineSeqs(MaxLines) : \A k \in 1..Len(q) : q[k] \in NamedLines} :
              txt = ChoicesBlob(ls) =>
                  parsed.choices = IF LineChoices(ls) = <<>>
                                   THEN << [label |-> "Go left", summary |-> "left_path"],
                                           [label |-> "Go right", summary |-> "right_path"] >>
                                   ELSE LineChoices(ls)

IsTrueText(fin) == fin \in {"true", "True", "TRUE"}

ContractExpected(sc, im, l1, s1, l2, s2, fin) ==
    [done |-> TRUE, raised |-> FALSE, text |-> Strip(sc), image_prompt |-> Strip(im),
     choices |-> << [label |-> Strip(l1), summary |-> Strip(s1)],
                    [label |-> Strip(l2), summary |-> Strip(s2)] >>,
     finished |-> IsTrueText(fin)]

\* C9 as stated: a text with the four sections in the format of the system
\* prompt and two choice lines parses to exactly its (trimmed) scene text,
\* its image prompt, its two (label, summary) pairs in order, and finished
\* iff the FINISHED content is "true" in any letter case.
C9_RoundTrip ==
    parsed.done =>
        \A sc \in SceneTexts, im \in ImagePrompts, l1 \in Labels1, s1 \in Summaries1,
           l2 \in Labels2, s2 \in Summaries2, fin \in FinishedTexts :
            txt = ContractBlob(sc, im, l1, s1, l2, s2, fin)
                => parsed = ContractExpected(sc, im, l1, s1, l2, s2, fin)

\* C9 amended: the round trip holds when the scene text and the image prompt
\* are not empty after trimming and no label contains an em-dash.
C9_RoundTripNonEmpty ==
    parsed.done =>
        \A sc \in SceneTexts, im \in ImagePrompts, l1 \in Labels1, s1 \in Summaries1,
           l2 \in Labels2, s2 \in Summaries2, fin \in FinishedTexts :
            (/\ txt = ContractBlob(sc, im, l1, s1, l2, s2, fin)
             /\ Strip(sc) # "" /\ Strip(im) # ""
             /\ ~Contains(l1, EmDash) /\ ~Contains(l2, EmDash))
                => parsed = ContractExpected(sc, im, l1, s1, l2, s2, fin)

C9_Witness ==
    /\ parsed.done
    /\ txt = ContractBlob("  Rain fell.\nThen sun. ", " harbor at dusk ",
                          "Run (fast) now", "go_left", "Stay home", "wait  here ", "True")
    /\ parsed.text = "Rain fell.\nThen sun."
    /\ parsed.finished
    /\ Len(parsed.choices) = 2

NoTags(t) == \A tag \in Tags : ~Contains(t, OpenTag(tag)) /\ ~Contains(t, CloseTag(tag))

\* C10: a text with none of the delimiter tags parses to the trimmed text
\* as scene, the default image prompt naming main character and setting,
\* the two default choices in order, and finished = false.
C10_FallbackWithoutTags ==
    (parsed.done /\ NoTags(txt)) =>
        parsed = [done |-> TRUE, raised |-> FALSE,
                  text |-> Strip(txt),
                  image_prompt |-> "Illustration of " \o config.main_character
                                   \o " in " \o config.setting \o ".",
                  choices |-> << [label |-> "Go left", summary |-> "left_path"],
                                 [label |-> "Go right", summary |-> "right_path"] >>,
                  finished |-> FALSE]

C10_Witness ==
    /\ parsed.done
    /\ txt = "\n The end. true \n"
    /\ parsed.text = "The end. true"
    /\ ~parsed.finished
    /\ Len(parsed.choices) = 2

\* C11: a merge_from call, as made on a re-render of an existing session,
\* leaves the story state unchanged and changes nothing of the engine but
\* its provider, API key, model and client; the configuration stays.
C11_MergeChangesOnlyBindings ==
    [][(last_op'.name = "merge_from" /\ session) =>
          (UNCHANGED state_vars /\ config' = config)]_vars

\* C12: once the story has been started, no call changes the engine's
\* configuration.
C12_ConfigImmutableAfterStart ==
    [][session => config' = config]_vars

MaxSceneNumber == 7

MockSummaries == {"inspect_map", "venture_out", "seek_friend", "follow_glow", "enter_door"}

\* C13: the mock's opening scene has exactly the three choices inspect_map,
\* venture_out, seek_friend in that order and is not finished; a mock
\* continuation generated at scene_number < 5 has exactly two choices and is
\* not finished; one generated at scene_number >= 5 has no choices and is
\* finished.  Stated of the state a mock generation leaves, and, for the
\* configuration of a newly constructed engine, of _mock_scene at every
\* scene number up to MaxSceneNumber.
C13_MockOutputShape ==
    /\ (last_op.name = "start_story" /\ last_op.reply = "mock") =>
          /\ Len(choices) = 3
          /\ choices[1].summary = "inspect_map"
          /\ choices[2].summary = "venture_out"
          /\ choices[3].summary = "seek_friend"
          /\ ~finished
    /\ (last_op.name = "advance" /\ last_op.reply = "mock") =>
          IF last_op.pre_scene_number < 5
          THEN Len(choices) = 2 /\ ~finished
          ELSE Len(choices) = 0 /\ finished
    /\ ~session => \A sn \in 0..MaxSceneNumber : \A s \in MockSummaries :
          LET o == _mock_scene(config, sn, TRUE, "")
              c == _mock_scene(config, sn, FALSE, s)
          IN  /\ Len(o.choices) = 3 /\ ~o.finished
              /\ [k \in 1..3 |-> o.choices[k].summary]
                    = <<"inspect_map", "venture_out", "seek_friend">>
              /\ sn < 5 => (Len(c.choices) = 2 /\ ~c.finished)
              /\ sn >= 5 => (Len(c.choices) = 0 /\ c.finished)

C13_Witness ==
    /\ last_op.name = "advance" /\ last_op.reply = "mock"
    /\ last_op.pre_scene_number = 5
    /\ finished /\ choices = << >>
    /\ Len(history) = 4

\* C14: with the mock provider, start_story followed by exactly 4 valid
\* advance calls (any in-range indices) ends finished, with no choices and
\* scene_number 5; after fewer than 4 valid advances the story is not
\* finished.  gen_calls counts start_story and the valid advances.
C14_MockFinishesAfterFourAdvances ==
    session =>
        /\ gen_calls = 1 + 4 => (finished /\ Len(choices) = 0 /\ scene_number = 5)
        /\ gen_calls < 1 + 4 => ~finished

C14_Witness ==
    /\ session /\ gen_calls = 5 /\ Len(scenes) = 5
    /\ finished /\ choices = << >> /\ scene_number = 5
    /\ last_op.name = "advance" /\ last_op.index = 0

\* C17: start_story takes effect only on an engine that has not been
\* started: called on a started engine (in progress or finished) it leaves
\* scene_number, history, the current scene, the choices and the finished
\* flag as they were.
C17_StartOnlyFromNotStarted ==
    [][(last_op'.name = "start_story" /\ session) => UNCHANGED state_vars]_vars

\* C18: history is append-only and one scene behind the display: a
\* successful advance appends exactly the scene text displayed before it and
\* keeps the earlier entries; no other step changes history; and once a
\* scene has been generated, history holds one entry fewer than the number
\* of scenes generated.
C18_HistoryLagsByOne ==
    [][/\ (last_op'.name = "advance" /\ last_op'.called /\ ~raised')
             => history' = Append(history, last_scene_text)
       /\ ~(last_op'.name = "advance" /\ last_op'.called /\ ~raised')
             => history' = history
       /\ Len(scenes') >= 1 => Len(history') = Len(scenes') - 1]_vars

\* C19: every remote generation request carries in its user prompt exactly
\* the last min(3, len(history)) history entries, oldest first, and none of
\* the older ones; the opening request carries no entry and no choice
\* summary, a continuation carries the summary of the choice at the selected
\* index.
C19_BoundedContext ==
    [][(gen_calls' = gen_calls + 1 /\ last_op'.reply \in {"text", "error"}) =>
          LET n == IF Len(history) < 3 THEN Len(history) ELSE 3
              carried == [k \in 1..n |-> history[Len(history) - n + k]]
              lines == IF n = 0 THEN ""
                       ELSE IF n = 1 THEN carried[1]
                       ELSE IF n = 2 THEN carried[1] \o "\n" \o carried[2]
                       ELSE carried[1] \o "\n" \o carried[2] \o "\n" \o carried[3]
          IN  IF last_op'.name = "start_story"
              THEN /\ n = 0
                   /\ user_prompt' = "Opening scene.\n\nRecent scenes:\n\n"
              ELSE user_prompt' = "Continue based on choice: "
                                  \o choices[last_op'.index + 1].summary
                                  \o ".\n\nRecent scenes:\n" \o lines \o "\n"]_vars

\* C20: no stuck story: a start_story or advance step in which the provider
\* returned a scene (the mock's, or any text of the remote model) ends in a
\* state that is finished or has at least one choice; as no other step
\* changes choices or finished, every unfinished state after start_story
\* then has a valid advance index.
C20_NoStuckStory ==
    [][(last_op'.called /\ last_op'.reply \in {"mock", "text"})
          => (finished' \/ Len(choices') > 0)]_vars

\* C15: a capability that is not available is replaced by the mock or
\* placeholder, never by an error or by nothing: an engine without a remote
\* client generates text with the mock; generate_image without a remote
\* client returns the placeholder; and a narrate call in which nothing
\* failed has written a file and returned its path, for every provider,
\* the file being the silent placeholder when the engine has neither a
\* remote client nor a local engine.
C15_AbsenceFallsBackToPlaceholder ==
    /\ ~client => UsesMock(provider, client)
    /\ (image.called /\ ~image_engine.client)
          => (~image.raised /\ image.kind = "placeholder")
    /\ (narration.called /\ narration.failed = {})
          => /\ ~narration.raised
             /\ narration.wrote
             /\ narration.path # "None"
             /\ (~tts.client /\ ~tts.engine) => narration.silent

\* C16: a narrate call in which the remote speech call, the local engine or
\* the file write failed does not raise: it has written the silent
\* placeholder and returned its path.
C16_NarrationFailureIsCaught ==
    (narration.called /\ narration.failed # {})
        => /\ ~narration.raised
           /\ narration.wrote
           /\ narration.silent
           /\ narration.path # "None"

\* C21: after e.merge_from(o) the engine e generates its next scene with the
\* variant o itself would use, the mock if o.provider is "mock" or o has no
\* remote client and the remote model otherwise, whatever provider and
\* client e had before the merge.
C21_HotSwapEquivalence ==
    [][last_op'.name = "merge_from"
          => (UsesMock(provider', client') <=> last_op'.other_mock)]_vars

====
